---- MODULE Spec2Model ----
(***************************************************************************)
(* Model of the Modbus RTU engine of ModbusRtu.h (class Modbus): one       *)
(* engine instance, master (u8id = 0) or slave (u8id # 0), its serial      *)
(* port and the millisecond clock.                                         *)
(*                                                                         *)
(* Each method of the class is an operator from the object (a record of    *)
(* the member fields, plus the port and what the call did) to the object   *)
(* after the call; each public operation is one action.                    *)
(*                                                                         *)
(* Arithmetic is that of the AVR build the file is written for (it uses    *)
(* the UCSRnA registers): int and unsigned int are 16 bits, uint8_t wraps  *)
(* at 256, uint16_t at 65536.  The 32-bit millisecond counter is scaled to *)
(* ClockBits bits.                                                         *)
(***************************************************************************)
EXTENDS Integers, Sequences, FiniteSets, TLC

\* ------------------------------------------------------------ constants
RESPONSE_SIZE  == 6
EXCEPTION_SIZE == 3
CHECKSUM_SIZE  == 2

\* enum MESSAGE: indexes to telegram frame positions
ID       == 0
FUNC     == 1
ADD_HI   == 2
ADD_LO   == 3
NB_HI    == 4
NB_LO    == 5
BYTE_CNT == 6

\* enum MB_FC
MB_FC_NONE                     == 0
MB_FC_READ_COILS               == 1
MB_FC_READ_DISCRETE_INPUT      == 2
MB_FC_READ_REGISTERS           == 3
MB_FC_READ_INPUT_REGISTER      == 4
MB_FC_WRITE_COIL               == 5
MB_FC_WRITE_REGISTER           == 6
MB_FC_WRITE_MULTIPLE_COILS     == 15
MB_FC_WRITE_MULTIPLE_REGISTERS == 16

\* enum COM_STATES
COM_IDLE    == 0
COM_WAITING == 1

\* enum ERR_LIST
ERR_NOT_MASTER    == -1
ERR_POLLING       == -2
ERR_BUFF_OVERFLOW == -3
ERR_BAD_CRC       == -4
ERR_EXCEPTION     == -5

NO_REPLY       == 255
EXC_FUNC_CODE  == 1
EXC_ADDR_RANGE == 2
EXC_REGS_QUANT == 3
EXC_EXECUTE    == 4

fctsupported == <<MB_FC_READ_COILS, MB_FC_READ_DISCRETE_INPUT,
                  MB_FC_READ_REGISTERS, MB_FC_READ_INPUT_REGISTER,
                  MB_FC_WRITE_COIL, MB_FC_WRITE_REGISTER,
                  MB_FC_WRITE_MULTIPLE_COILS, MB_FC_WRITE_MULTIPLE_REGISTERS>>

T35          == 5
MAX_BUFFER   == 64
SIZE_R_REGS  == 16
SIZE_RW_REGS == 16
SIZE_R_BITS  == 16
SIZE_RW_BITS == 16

\* u16timeOut as init() leaves it
DefaultTimeOut == 1000

\* ------------------------------------------------------------ bounds
\* width of the millisecond counter (32 in the program)
ClockBits == 12
\* the clock runs from 0 to MaxNow
MaxNow == 5
\* the short watchdog time the host configures with setTimeOut
TimeOutShort == 2
\* most bytes waiting in the port's receive buffer
MaxRx == 13
\* each of the three message counters is followed up to this value
MaxCnt == 1

\* the slave's node address, and another node's
SlaveId == 1

ClockMod == 2 ^ ClockBits
OtherId  == SlaveId + 1

\* ------------------------------------------------------------ integer helpers
U8(x)  == x % 256
U16(x) == x % 65536
U32(x) == x % ClockMod

\* conversion of a value to the int8_t the polls and query return
ToInt8(x) == IF U8(x) >= 128 THEN U8(x) - 256 ELSE U8(x)

highByte(w) == U8(w \div 256)
lowByte(w)  == U8(w)
word(h, l)  == U16(h * 256 + l)

bitRead(x, k)     == (x \div (2 ^ k)) % 2
bitWrite(x, k, b) == x - bitRead(x, k) * (2 ^ k) + (IF b # 0 THEN 2 ^ k ELSE 0)

RECURSIVE XorN(_, _, _)
XorN(a, b, n) ==
    IF n = 0 THEN 0
    ELSE ((a + b) % 2) + 2 * XorN(a \div 2, b \div 2, n - 1)

\* x with bit k inverted
bitFlip(x, k) == bitWrite(x, k, 1 - bitRead(x, k))

\* temp ^ 0xA001: bits 15, 13 and 0 inverted
XorA001(temp) == bitFlip(bitFlip(bitFlip(temp, 15), 13), 0)

\* ------------------------------------------------------------ frame buffer
\* au8Buffer is a function on 0..MAX_BUFFER-1.  An index outside it is outside
\* the array: a write there does not reach the array, a read there yields a
\* value the program does not control (stray).
ZeroBuffer == [i \in 0 .. MAX_BUFFER - 1 |-> 0]

InBuffer(i) == i >= 0 /\ i < MAX_BUFFER

BufRead(buf, i, stray) == IF InBuffer(i) THEN buf[i] ELSE stray

BufWrite(buf, i, v) == IF InBuffer(i) THEN [buf EXCEPT ![i] = v] ELSE buf

\* ------------------------------------------------------------ calcCRC
\* the inner loop (j = 1..8): shift right, xor 0xA001 when a 1 was shifted out.
\* (next >= 0 is always true: it makes the value be computed before the next
\* round is entered.)
RECURSIVE crcShift(_, _)
crcShift(temp, j) ==
    IF j = 0 THEN temp
    ELSE LET next == IF temp % 2 = 1 THEN XorA001(temp \div 2)
                                     ELSE temp \div 2
         IN  IF next >= 0 THEN crcShift(next, j - 1) ELSE 0

\* a round of the outer loop that leaves the byte out
crcByte_NoData(temp, byte) == crcShift(temp, 8)

\* one round of the outer loop: temp ^ byte (the low eight bits), then the
\* eight shifts
crcByte(temp, byte) == crcShift(temp - (temp % 256) + XorN(temp % 256, byte, 8), 8)

\* the outer loop over the bytes of the buffer: its rounds i .. u8length-1,
\* taken as the first half of them and then the rest
RECURSIVE crcLoop(_, _, _, _, _)
crcLoop(buf, i, u8length, temp, stray) ==
    IF i >= u8length THEN temp
    ELSE IF u8length - i = 1 THEN crcByte(temp, BufRead(buf, i, stray))
    ELSE LET mid  == i + ((u8length - i) \div 2)
             half == crcLoop(buf, i, mid, temp, stray)
         IN  IF half >= 0 THEN crcLoop(buf, mid, u8length, half, stray) ELSE 0

\* the CRC of buf[0 .. u8length-1], returned with its bytes swapped
calcCRC(buf, u8length, stray) ==
    LET temp == crcLoop(buf, 0, u8length, 65535, stray)
    IN  U16(((temp * 256) % 65536) + (temp \div 256))

\* ------------------------------------------------------------ state
VARIABLES
    u8id,          \* 0 = master, 1..247 = slave number
    u8txenpin,     \* flow control pin: 0 or 1 = none, above 1 = RS-485 mode
    u8state,       \* COM_IDLE or COM_WAITING
    u8lastError,
    au8Buffer,     \* the frame buffer, 0..MAX_BUFFER-1 -> byte
    u8BufferSize,
    u8lastRec,     \* available-byte count seen by the previous poll
    au16regs,      \* the caller's array of 16-bit values (master), a sequence
    u16InCnt, u16OutCnt, u16errCnt,
    u16timeOut,    \* configured watchdog time
    r_regArea, rw_regArea,   \* 0..15 -> word
    r_bitArea, rw_bitArea,   \* 0..1 -> word (16 bits and one spare word)
    u32time,       \* inter-frame silence deadline
    u32timeOut,    \* watchdog deadline
    now,           \* millis()
    rx,            \* bytes waiting in the port (port->available() = Len(rx))
    tx,            \* the frames the last call wrote to the port
    ret,           \* what the last call returned
    call,          \* the last call: its name, its telegram, the bytes it drained
    oob,           \* the last call touched memory outside an array
    txen,          \* the level of the pin u8txenpin: "LOW" or "HIGH"
    txc,           \* the UART's transmit-complete flag (TXCn of UCSRnA)
    line           \* what the last call did on the pin and the port, in order

members == <<u8id, u8txenpin, u8state, u8lastError, au8Buffer, u8BufferSize, u8lastRec,
             au16regs, u16InCnt, u16OutCnt, u16errCnt, u16timeOut,
             r_regArea, rw_regArea, r_bitArea, rw_bitArea, u32time, u32timeOut>>

vars == <<members, now, rx, tx, ret, call, oob, txen, txc, line>>

\* The object as a call finds it: the member fields, the port, and the record
\* of what the call does (tx, rxed, oob) and returns (r).
Self ==
    [u8id |-> u8id, u8txenpin |-> u8txenpin,
     u8state |-> u8state, u8lastError |-> u8lastError,
     au8Buffer |-> au8Buffer, u8BufferSize |-> u8BufferSize,
     u8lastRec |-> u8lastRec, au16regs |-> au16regs,
     u16InCnt |-> u16InCnt, u16OutCnt |-> u16OutCnt, u16errCnt |-> u16errCnt,
     u16timeOut |-> u16timeOut,
     r_regArea |-> r_regArea, rw_regArea |-> rw_regArea,
     r_bitArea |-> r_bitArea, rw_bitArea |-> rw_bitArea,
     u32time |-> u32time, u32timeOut |-> u32timeOut,
     rx |-> rx, tx |-> <<>>, rxed |-> <<>>, oob |-> FALSE, r |-> 0,
     txen |-> txen, txc |-> txc, line |-> <<>>]

\* The state after a call that leaves the object as o.
Commit(o) ==
    /\ u8id' = o.u8id
    /\ u8txenpin' = o.u8txenpin
    /\ u8state' = o.u8state
    /\ u8lastError' = o.u8lastError
    /\ au8Buffer' = o.au8Buffer
    /\ u8BufferSize' = o.u8BufferSize
    /\ u8lastRec' = o.u8lastRec
    /\ au16regs' = o.au16regs
    /\ u16InCnt' = o.u16InCnt
    /\ u16OutCnt' = o.u16OutCnt
    /\ u16errCnt' = o.u16errCnt
    /\ u16timeOut' = o.u16timeOut
    /\ r_regArea' = o.r_regArea
    /\ rw_regArea' = o.rw_regArea
    /\ r_bitArea' = o.r_bitArea
    /\ rw_bitArea' = o.rw_bitArea
    /\ u32time' = o.u32time
    /\ u32timeOut' = o.u32timeOut
    /\ rx' = o.rx
    /\ tx' = o.tx
    /\ oob' = o.oob
    /\ txen' = o.txen
    /\ txc' = o.txc
    /\ line' = o.line
    /\ ret' = ToInt8(o.r)

\* return r from a method or a call
Return(o, r) == [o EXCEPT !.r = r]

\* ------------------------------------------------------------ Register Store
InRegs(i, size) == i >= 0 /\ i < size

\* rw_regArea[i] = v: outside the array the write misses it
RegWrite(area, i, v) ==
    IF InRegs(i, SIZE_RW_REGS) THEN [area EXCEPT ![i] = v] ELSE area

\* the words of a bit space: (SIZE/16) + 1
BitWords == (SIZE_RW_BITS \div 16) + 1

BitAreaRead(area, u8currentRegister, u8currentBit, stray) ==
    IF InRegs(u8currentRegister, BitWords)
    THEN bitRead(area[u8currentRegister], u8currentBit)
    ELSE stray % 2

BitAreaWrite(area, u8currentRegister, u8currentBit, b) ==
    IF InRegs(u8currentRegister, BitWords)
    THEN [area EXCEPT ![u8currentRegister] = bitWrite(@, u8currentBit, b)]
    ELSE area

\* ------------------------------------------------------------ sendTxBuffer
\* the bytes port->write(au8Buffer, n) puts on the line
Written(buf, n, stray) == [k \in 1 .. n |-> BufRead(buf, k - 1, stray)]

\* the pin u8txenpin drives an RS-485 transceiver
rs485(o) == o.u8txenpin > 1

\* a sendTxBuffer that leaves the transmit-complete flag as it finds it
clearTXC_Kept(flag) == flag

\* UCSRnA = UCSRnA | (1 << TXCn): writing a one to the flag clears it
clearTXC(flag) == FALSE

\* What sendTxBuffer does on the pin and the port, flag being TXCn as the
\* call finds it.  The UART sets TXCn when the last byte written has left
\* the shift register; the wait loop ends when it reads the flag set,
\* which a flag left set ends at once; port->flush() returns when the
\* transmission is complete.
txEvents(o) ==
    IF rs485(o)
    THEN <<"clearTXC", "HIGH", "write">>
         \o (IF clearTXC(o.txc) THEN <<"LOW", "TXC">> ELSE <<"TXC", "LOW">>)
         \o <<"flush">>
    ELSE <<"write", "TXC", "flush">>

sendTxBuffer(o, millis, stray) ==
    LET u16crc == calcCRC(o.au8Buffer, o.u8BufferSize, stray)
        size1  == U8(o.u8BufferSize + 1)
        size2  == U8(size1 + 1)
        buf1   == BufWrite(o.au8Buffer, o.u8BufferSize, u16crc \div 256)
        buf2   == BufWrite(buf1, size1, u16crc % 256)
    IN  [o EXCEPT
            !.au8Buffer    = buf2,
            !.line         = @ \o txEvents(o),
            !.txen         = IF rs485(o) THEN "LOW" ELSE @,
            !.txc          = TRUE,
            !.tx           = Append(@, Written(buf2, size2, stray)),
            !.oob          = @ \/ ~InBuffer(o.u8BufferSize) \/ ~InBuffer(size1),
            !.u8BufferSize = 0,
            !.u32timeOut   = U32(millis + o.u16timeOut),
            !.u16OutCnt    = U16(@ + 1)]

\* ------------------------------------------------------------ getRxBuffer
\* one round of the while loop: one byte of the port
rxRound(l) ==
    LET o    == l.o
        size == U8(o.u8BufferSize + 1)
    IN  [o |-> [o EXCEPT
                  !.au8Buffer    = BufWrite(@, o.u8BufferSize, Head(o.rx)),
                  !.oob          = @ \/ ~InBuffer(o.u8BufferSize),
                  !.u8BufferSize = size,
                  !.rxed         = Append(@, Head(o.rx)),
                  !.rx           = Tail(@)],
         bBuffOverflow |-> l.bBuffOverflow \/ size >= MAX_BUFFER]

\* the while loop: n rounds, one for each byte the port holds, taken as the
\* first half of them and then the rest
RECURSIVE rxLoop(_, _)
rxLoop(l, n) ==
    IF n = 0 THEN l
    ELSE IF n = 1 THEN rxRound(l)
    ELSE LET half == rxLoop(l, n \div 2)
         IN  IF half.o.u8BufferSize >= 0 THEN rxLoop(half, n - (n \div 2)) ELSE l

getRxBuffer(o) ==
    LET low == [o EXCEPT !.txen = IF rs485(o) THEN "LOW" ELSE @,
                         !.line = IF rs485(o) THEN Append(@, "LOW") ELSE @]
        l == rxLoop([o |-> [low EXCEPT !.u8BufferSize = 0], bBuffOverflow |-> FALSE],
                    Len(o.rx))
        d == [l.o EXCEPT !.u16InCnt = U16(@ + 1)]
    IN  IF l.bBuffOverflow
        THEN Return([d EXCEPT !.u16errCnt = U16(@ + 1)], ERR_BUFF_OVERFLOW)
        ELSE Return(d, d.u8BufferSize)

\* ------------------------------------------------------------ validation
\* a validation that skips the CRC comparison
crcMatches_Unchecked(o, stray) == TRUE

\* the CRC in the frame's last two bytes against the CRC of the bytes before
crcMatches(o, stray) ==
    LET u16MsgCRC == BufRead(o.au8Buffer, o.u8BufferSize - 2, stray) * 256
                     + BufRead(o.au8Buffer, o.u8BufferSize - 1, stray)
    IN  calcCRC(o.au8Buffer, U8(o.u8BufferSize - 2), stray) = u16MsgCRC

isSupported(fct) == \E i \in 1 .. Len(fctsupported) : fctsupported[i] = fct

\* the request's start address and its number of coils or registers
StartOf(buf) == word(buf[ADD_HI], buf[ADD_LO])
CountOf(buf) == word(buf[NB_HI], buf[NB_LO])

\* check start address & nb range: TRUE when the request is out of range
rangeExceeded(buf) ==
    LET fct == buf[FUNC]
    IN  IF fct \in {MB_FC_READ_COILS, MB_FC_READ_DISCRETE_INPUT,
                    MB_FC_WRITE_MULTIPLE_COILS}
        THEN U16(StartOf(buf) + CountOf(buf)) > SIZE_RW_BITS
        ELSE IF fct = MB_FC_WRITE_COIL
        THEN StartOf(buf) > SIZE_RW_BITS
        ELSE IF fct = MB_FC_WRITE_REGISTER
        THEN StartOf(buf) > SIZE_RW_REGS
        ELSE IF fct \in {MB_FC_READ_REGISTERS, MB_FC_READ_INPUT_REGISTER,
                         MB_FC_WRITE_MULTIPLE_REGISTERS}
        THEN U16(StartOf(buf) + CountOf(buf)) > SIZE_RW_REGS
        ELSE FALSE

validateRequest(o, stray) ==
    IF ~crcMatches(o, stray)
    THEN Return([o EXCEPT !.u16errCnt = U16(@ + 1)], NO_REPLY)
    ELSE IF ~isSupported(o.au8Buffer[FUNC])
    THEN Return([o EXCEPT !.u16errCnt = U16(@ + 1)], EXC_FUNC_CODE)
    ELSE IF rangeExceeded(o.au8Buffer)
    THEN Return(o, EXC_ADDR_RANGE)
    ELSE Return(o, 0)

validateAnswer(o, stray) ==
    IF ~crcMatches(o, stray)
    THEN Return([o EXCEPT !.u16errCnt = U16(@ + 1)], NO_REPLY)
    ELSE IF o.au8Buffer[FUNC] >= 128
    THEN Return([o EXCEPT !.u16errCnt = U16(@ + 1)], U8(ERR_EXCEPTION))
    ELSE IF ~isSupported(o.au8Buffer[FUNC])
    THEN Return([o EXCEPT !.u16errCnt = U16(@ + 1)], EXC_FUNC_CODE)
    ELSE Return(o, 0)

buildException(o, u8exception) ==
    LET u8func == o.au8Buffer[FUNC]
    IN  [o EXCEPT
            !.au8Buffer = [@ EXCEPT ![ID] = o.u8id,
                                    ![FUNC] = U8(u8func + 128),
                                    ![2] = u8exception],
            !.u8BufferSize = EXCEPTION_SIZE]

\* ------------------------------------------------------------ process_FC1
\* the for loop over the coils: bit u8bitsno of au8Buffer[u8BufferSize] takes
\* bit (u16coil % 16) of rw_bitArea[u16coil / 16]
RECURSIVE fc1Loop(_, _, _, _, _, _)
fc1Loop(o, u16StartCoil, u16currentCoil, u16Coilno, u8bitsno, stray) ==
    IF u16currentCoil >= u16Coilno THEN o
    ELSE LET u16coil           == U16(u16StartCoil + u16currentCoil)
             u8currentRegister == U8(u16coil \div 16)
             u8currentBit      == U8(u16coil % 16)
             b    == BitAreaRead(o.rw_bitArea, u8currentRegister, u8currentBit, stray)
             byte == bitWrite(BufRead(o.au8Buffer, o.u8BufferSize, stray), u8bitsno, b)
             full == u8bitsno + 1 > 7
             next == [o EXCEPT
                        !.au8Buffer    = BufWrite(@, o.u8BufferSize, byte),
                        !.oob          = @ \/ ~InBuffer(o.u8BufferSize)
                                           \/ ~InRegs(u8currentRegister, BitWords),
                        !.u8BufferSize = IF full THEN U8(@ + 1) ELSE @]
         IN  IF next.u8BufferSize >= 0
             THEN fc1Loop(next, u16StartCoil, U16(u16currentCoil + 1), u16Coilno,
                          IF full THEN 0 ELSE u8bitsno + 1, stray)
             ELSE o

\* process_FC1 with the byte count truncated (u16Coilno / 8, never rounded up)
process_FC1_Truncated(o, millis, stray) ==
    LET u16StartCoil == StartOf(o.au8Buffer)
        u16Coilno    == CountOf(o.au8Buffer)
        u8bytesno    == U8(u16Coilno \div 8)
        head == [o EXCEPT !.au8Buffer = [@ EXCEPT ![ADD_HI] = u8bytesno],
                          !.u8BufferSize = ADD_LO]
        body == fc1Loop(head, u16StartCoil, 0, u16Coilno, 0, stray)
        last == [body EXCEPT !.u8BufferSize =
                                IF u16Coilno % 8 # 0 THEN U8(@ + 1) ELSE @]
        u8CopyBufferSize == U8(last.u8BufferSize + 2)
    IN  Return(sendTxBuffer(last, millis, stray), u8CopyBufferSize)

process_FC1(o, millis, stray) ==
    LET u16StartCoil == StartOf(o.au8Buffer)
        u16Coilno    == CountOf(o.au8Buffer)
        u8bytesno    == U8(U8(u16Coilno \div 8) + (IF u16Coilno % 8 # 0 THEN 1 ELSE 0))
        head == [o EXCEPT !.au8Buffer = [@ EXCEPT ![ADD_HI] = u8bytesno],
                          !.u8BufferSize = ADD_LO]
        body == fc1Loop(head, u16StartCoil, 0, u16Coilno, 0, stray)
        last == [body EXCEPT !.u8BufferSize =
                                IF u16Coilno % 8 # 0 THEN U8(@ + 1) ELSE @]
        u8CopyBufferSize == U8(last.u8BufferSize + 2)
    IN  Return(sendTxBuffer(last, millis, stray), u8CopyBufferSize)

\* ------------------------------------------------------------ process_FC3
\* the for loop, as the source has it: the two assignments go from the frame
\* buffer to the register (highByte(rw_regArea[i]) = au8Buffer[...]); the
\* byte count is written from u8regsno, a name the method does not declare,
\* read here as its u16regsno
RECURSIVE fc3Loop(_, _, _, _)
fc3Loop(o, i, limit, stray) ==
    IF i >= limit THEN o
    ELSE LET hi   == BufRead(o.au8Buffer, o.u8BufferSize, stray)
             lo   == BufRead(o.au8Buffer, U8(o.u8BufferSize + 1), stray)
             next == [o EXCEPT
                        !.rw_regArea   = RegWrite(@, i, word(hi, lo)),
                        !.oob          = @ \/ ~InRegs(i, SIZE_RW_REGS)
                                           \/ ~InBuffer(o.u8BufferSize + 1),
                        !.u8BufferSize = U8(@ + 2)]
         IN  IF next.u8BufferSize >= 0 THEN fc3Loop(next, U8(i + 1), limit, stray)
             ELSE o

process_FC3(o, millis, stray) ==
    LET u16StartAdd == StartOf(o.au8Buffer)
        u16regsno   == CountOf(o.au8Buffer)
        head == [o EXCEPT !.au8Buffer = [@ EXCEPT ![2] = U8(u16regsno * 2)],
                          !.u8BufferSize = 3]
        body == fc3Loop(head, U8(u16StartAdd), U16(u16StartAdd + u16regsno), stray)
        u8CopyBufferSize == U8(body.u8BufferSize + 2)
    IN  Return(sendTxBuffer(body, millis, stray), u8CopyBufferSize)

\* ------------------------------------------------------------ process_FC5
process_FC5(o, millis, stray) ==
    LET u16coil           == StartOf(o.au8Buffer)
        u8currentRegister == U8(u16coil \div 16)
        u8currentBit      == U8(u16coil % 16)
        b       == IF o.au8Buffer[NB_HI] = 255 THEN 1 ELSE 0
        written == [o EXCEPT
                      !.rw_bitArea   = BitAreaWrite(@, u8currentRegister, u8currentBit, b),
                      !.oob          = @ \/ ~InRegs(u8currentRegister, BitWords),
                      !.u8BufferSize = 6]
        u8CopyBufferSize == U8(written.u8BufferSize + 2)
    IN  Return(sendTxBuffer(written, millis, stray), u8CopyBufferSize)

\* ------------------------------------------------------------ process_FC6
\* process_FC6 with the two bytes of the value taken in the wrong order
process_FC6_Swapped(o, millis, stray) ==
    LET u8add   == StartOf(o.au8Buffer)
        u16val  == word(o.au8Buffer[NB_LO], o.au8Buffer[NB_HI])
        written == [o EXCEPT
                      !.rw_regArea   = RegWrite(@, u8add, u16val),
                      !.oob          = @ \/ ~InRegs(u8add, SIZE_RW_REGS),
                      !.u8BufferSize = RESPONSE_SIZE]
        u8CopyBufferSize == U8(written.u8BufferSize + 2)
    IN  Return(sendTxBuffer(written, millis, stray), u8CopyBufferSize)

process_FC6(o, millis, stray) ==
    LET u8add   == StartOf(o.au8Buffer)
        u16val  == CountOf(o.au8Buffer)
        written == [o EXCEPT
                      !.rw_regArea   = RegWrite(@, u8add, u16val),
                      !.oob          = @ \/ ~InRegs(u8add, SIZE_RW_REGS),
                      !.u8BufferSize = RESPONSE_SIZE]
        u8CopyBufferSize == U8(written.u8BufferSize + 2)
    IN  Return(sendTxBuffer(written, millis, stray), u8CopyBufferSize)

\* ------------------------------------------------------------ process_FC15
RECURSIVE fc15Loop(_, _, _, _, _, _, _)
fc15Loop(o, u16StartCoil, u16currentCoil, u16Coilno, u8frameByte, u8bitsno, stray) ==
    IF u16currentCoil >= u16Coilno THEN o
    ELSE LET u16coil           == U16(u16StartCoil + u16currentCoil)
             u8currentRegister == U8(u16coil \div 16)
             u8currentBit      == U8(u16coil % 16)
             bTemp == bitRead(BufRead(o.au8Buffer, u8frameByte, stray), u8bitsno)
             full  == u8bitsno + 1 > 7
             next  == [o EXCEPT
                         !.rw_bitArea = BitAreaWrite(@, u8currentRegister,
                                                     u8currentBit, bTemp),
                         !.oob        = @ \/ ~InBuffer(u8frameByte)
                                          \/ ~InRegs(u8currentRegister, BitWords)]
         IN  IF next.u8BufferSize >= 0
             THEN fc15Loop(next, u16StartCoil, U16(u16currentCoil + 1), u16Coilno,
                           IF full THEN U8(u8frameByte + 1) ELSE u8frameByte,
                           IF full THEN 0 ELSE u8bitsno + 1, stray)
             ELSE o

process_FC15(o, millis, stray) ==
    LET u16StartCoil == StartOf(o.au8Buffer)
        u16Coilno    == CountOf(o.au8Buffer)
        body == fc15Loop(o, u16StartCoil, 0, u16Coilno, 7, 0, stray)
        last == [body EXCEPT !.u8BufferSize = 6]
        u8CopyBufferSize == U8(last.u8BufferSize + 2)
    IN  Return(sendTxBuffer(last, millis, stray), u8CopyBufferSize)

\* ------------------------------------------------------------ process_FC16
\* the for loop; i is a uint8_t compared with the 16-bit count
RECURSIVE fc16Loop(_, _, _, _, _)
fc16Loop(o, u8StartAdd, i, u8regsno, stray) ==
    IF i >= u8regsno THEN o
    ELSE LET hiAt == (BYTE_CNT + 1) + i * 2
             loAt == (BYTE_CNT + 2) + i * 2
             temp == word(BufRead(o.au8Buffer, hiAt, stray),
                          BufRead(o.au8Buffer, loAt, stray))
             at   == U16(u8StartAdd + i)
             next == [o EXCEPT
                        !.rw_regArea = RegWrite(@, at, temp),
                        !.oob        = @ \/ ~InBuffer(loAt)
                                         \/ ~InRegs(at, SIZE_RW_REGS)]
         IN  IF next.u8BufferSize >= 0
             THEN fc16Loop(next, u8StartAdd, U8(i + 1), u8regsno, stray)
             ELSE o

process_FC16(o, millis, stray) ==
    LET u8StartAdd == StartOf(o.au8Buffer)
        u8regsno   == CountOf(o.au8Buffer)
        head == [o EXCEPT !.au8Buffer = [@ EXCEPT ![NB_HI] = 0,
                                                  ![NB_LO] = U8(u8regsno)],
                          !.u8BufferSize = RESPONSE_SIZE]
        body == fc16Loop(head, u8StartAdd, 0, u8regsno, stray)
        u8CopyBufferSize == U8(body.u8BufferSize + 2)
    IN  Return(sendTxBuffer(body, millis, stray), u8CopyBufferSize)

\* ------------------------------------------------------------ poll (slave)
\* a slave that answers every frame, whatever its address byte
addressedToMe_Any(o) == TRUE

\* check slave id
addressedToMe(o) == o.au8Buffer[ID] = o.u8id

\* process message: the switch on the function code
dispatch(o, i8state, millis, stray) ==
    LET fct == o.au8Buffer[FUNC]
    IN  IF fct \in {MB_FC_READ_COILS, MB_FC_READ_DISCRETE_INPUT}
        THEN process_FC1(o, millis, stray)
        ELSE IF fct \in {MB_FC_READ_INPUT_REGISTER, MB_FC_READ_REGISTERS}
        THEN process_FC3(o, millis, stray)
        ELSE IF fct = MB_FC_WRITE_COIL
        THEN process_FC5(o, millis, stray)
        ELSE IF fct = MB_FC_WRITE_REGISTER
        THEN process_FC6(o, millis, stray)
        ELSE IF fct = MB_FC_WRITE_MULTIPLE_COILS
        THEN process_FC15(o, millis, stray)
        ELSE IF fct = MB_FC_WRITE_MULTIPLE_REGISTERS
        THEN process_FC16(o, millis, stray)
        ELSE Return(o, i8state)

\* validate message, then answer: an exception, nothing (bad CRC) or the reply
answerRequest(o, i8state, millis, stray) ==
    LET v           == validateRequest(o, stray)
        u8exception == v.r
    IN  IF u8exception > 0
        THEN LET sent == IF u8exception # NO_REPLY
                         THEN sendTxBuffer(buildException(v, u8exception),
                                           millis, stray)
                         ELSE v
             IN  Return([sent EXCEPT !.u8lastError = u8exception], u8exception)
        ELSE dispatch([v EXCEPT !.u32timeOut = U32(millis + v.u16timeOut),
                                !.u8lastError = 0],
                      i8state, millis, stray)

pollSlave(o, millis, stray) ==
    LET u8current == U8(Len(o.rx))
    IN  IF u8current = 0 THEN Return(o, 0)
        ELSE IF u8current # o.u8lastRec
        THEN Return([o EXCEPT !.u8lastRec = u8current,
                              !.u32time = U32(millis + T35)], 0)
        ELSE IF millis < o.u32time THEN Return(o, 0)
        ELSE LET got     == getRxBuffer([o EXCEPT !.u8lastRec = 0])
                 i8state == got.r
                 drained == [got EXCEPT !.u8lastError = U8(i8state)]
             IN  IF i8state < 7 THEN Return(drained, i8state)
                 ELSE IF ~addressedToMe(drained) THEN Return(drained, 0)
                 ELSE answerRequest(drained, i8state, millis, stray)

\* ------------------------------------------------------------ the caller's array
\* au16regs points at the caller's array: a sequence, element i at i + 1
InCaller(a, i) == i >= 0 /\ i < Len(a)

CallerRead(a, i, stray) == IF InCaller(a, i) THEN a[i + 1] ELSE stray

CallerWrite(a, i, v) == IF InCaller(a, i) THEN [a EXCEPT ![i + 1] = v] ELSE a

\* ------------------------------------------------------------ get_FC3
\* round i of the for loop: u8byte = 3 + 2 * i
getFc3Round(o, i, stray) ==
    LET u8byte == U8(3 + 2 * i)
        v      == word(BufRead(o.au8Buffer, u8byte, stray),
                       BufRead(o.au8Buffer, u8byte + 1, stray))
    IN  [o EXCEPT
           !.au16regs = CallerWrite(@, i, v),
           !.oob      = @ \/ ~InCaller(o.au16regs, i)
                          \/ ~InBuffer(u8byte + 1)]

\* the for loop: its rounds i .. limit-1 (limit = au8Buffer[2] / 2, which
\* the loop leaves alone), taken as the first half of them and then the rest
RECURSIVE getFc3Loop(_, _, _, _)
getFc3Loop(o, i, limit, stray) ==
    IF i >= limit THEN o
    ELSE IF limit - i = 1 THEN getFc3Round(o, i, stray)
    ELSE LET mid  == i + ((limit - i) \div 2)
             half == getFc3Loop(o, i, mid, stray)
         IN  IF half.u8BufferSize >= 0 THEN getFc3Loop(half, mid, limit, stray)
             ELSE o

get_FC3(o, stray) == getFc3Loop(o, 0, o.au8Buffer[2] \div 2, stray)

\* get_FC1: its body is commented out
get_FC1(o) == o

\* ------------------------------------------------------------ poll (master)
\* the watchdog test
timedOut(o, millis) == millis > o.u32timeOut

\* process answer: the switch on the function code
processAnswer(o, stray) ==
    LET fct == o.au8Buffer[FUNC]
    IN  IF fct \in {MB_FC_READ_COILS, MB_FC_READ_DISCRETE_INPUT}
        THEN get_FC1(o)
        ELSE IF fct \in {MB_FC_READ_INPUT_REGISTER, MB_FC_READ_REGISTERS}
        THEN get_FC3(o, stray)
        ELSE o

pollMaster(o, millis, stray) ==
    LET u8current == U8(Len(o.rx))
    IN  IF timedOut(o, millis)
        THEN Return([o EXCEPT !.u8state = COM_IDLE,
                              !.u8lastError = NO_REPLY,
                              !.u16errCnt = U16(@ + 1)], 0)
        ELSE IF u8current = 0 THEN Return(o, 0)
        ELSE IF u8current # o.u8lastRec
        THEN Return([o EXCEPT !.u8lastRec = u8current,
                              !.u32time = U32(millis + T35)], 0)
        ELSE IF millis < o.u32time THEN Return(o, 0)
        ELSE LET got     == getRxBuffer([o EXCEPT !.u8lastRec = 0])
                 i8state == got.r
             IN  IF i8state < 7
                 THEN Return([got EXCEPT !.u8state = COM_IDLE,
                                         !.u16errCnt = U16(@ + 1)], i8state)
                 ELSE LET v == validateAnswer(got, stray)
                      IN  IF v.r # 0
                          THEN Return([v EXCEPT !.u8state = COM_IDLE], v.r)
                          ELSE LET done == processAnswer(v, stray)
                               IN  Return([done EXCEPT !.u8state = COM_IDLE],
                                          done.u8BufferSize)

\* ------------------------------------------------------------ query
\* MB_FC_WRITE_MULTIPLE_REGISTERS: round i of the for loop copying the
\* caller's values
queryFc16Round(o, i, stray) ==
    LET v     == CallerRead(o.au16regs, i, stray)
        size1 == U8(o.u8BufferSize + 1)
        buf1  == BufWrite(o.au8Buffer, o.u8BufferSize, highByte(v))
        buf2  == BufWrite(buf1, size1, lowByte(v))
    IN  [o EXCEPT
           !.au8Buffer    = buf2,
           !.oob          = @ \/ ~InCaller(o.au16regs, i)
                              \/ ~InBuffer(o.u8BufferSize)
                              \/ ~InBuffer(size1),
           !.u8BufferSize = U8(size1 + 1)]

\* the for loop: its rounds i .. u16CoilsNo-1, taken as the first half of
\* them and then the rest
RECURSIVE queryFc16Loop(_, _, _, _)
queryFc16Loop(o, i, u16CoilsNo, stray) ==
    IF i >= u16CoilsNo THEN o
    ELSE IF u16CoilsNo - i = 1 THEN queryFc16Round(o, i, stray)
    ELSE LET mid  == i + ((u16CoilsNo - i) \div 2)
             half == queryFc16Loop(o, i, mid, stray)
         IN  IF half.u8BufferSize >= 0
             THEN queryFc16Loop(half, mid, u16CoilsNo, stray)
             ELSE o

\* the switch on the function code: payload and u8BufferSize
queryPayload(o, telegram, stray) ==
    LET fct  == telegram.u8fct
        nbHi == highByte(telegram.u16CoilsNo)
        nbLo == lowByte(telegram.u16CoilsNo)
        reg0 == CallerRead(o.au16regs, 0, stray)
    IN  IF fct \in {MB_FC_READ_COILS, MB_FC_READ_DISCRETE_INPUT,
                    MB_FC_READ_REGISTERS, MB_FC_READ_INPUT_REGISTER}
        THEN [o EXCEPT !.au8Buffer = [@ EXCEPT ![NB_HI] = nbHi, ![NB_LO] = nbLo],
                       !.u8BufferSize = 6]
        ELSE IF fct = MB_FC_WRITE_COIL
        THEN [o EXCEPT !.au8Buffer = [@ EXCEPT ![NB_HI] = IF reg0 > 0 THEN 255 ELSE 0,
                                               ![NB_LO] = 0],
                       !.oob = @ \/ ~InCaller(o.au16regs, 0),
                       !.u8BufferSize = 6]
        ELSE IF fct = MB_FC_WRITE_REGISTER
        THEN [o EXCEPT !.au8Buffer = [@ EXCEPT ![NB_HI] = highByte(reg0),
                                               ![NB_LO] = lowByte(reg0)],
                       !.oob = @ \/ ~InCaller(o.au16regs, 0),
                       !.u8BufferSize = 6]
        ELSE IF fct = MB_FC_WRITE_MULTIPLE_COILS
        THEN LET u8regsno  == U8(telegram.u16CoilsNo \div 16)
                 u8bytesno == U8(U8(u8regsno * 2)
                                 + (IF telegram.u16CoilsNo % 16 # 0 THEN 1 ELSE 0))
             IN  [o EXCEPT !.au8Buffer = [@ EXCEPT ![NB_HI] = nbHi, ![NB_LO] = nbLo,
                                                   ![NB_LO + 1] = u8bytesno],
                           !.u8BufferSize = 7]
        ELSE IF fct = MB_FC_WRITE_MULTIPLE_REGISTERS
        THEN queryFc16Loop(
                 [o EXCEPT !.au8Buffer = [@ EXCEPT
                                ![NB_HI] = nbHi, ![NB_LO] = nbLo,
                                ![NB_LO + 1] = U8(telegram.u16CoilsNo * 2)],
                           !.u8BufferSize = 7],
                 0, telegram.u16CoilsNo, stray)
        ELSE o

query(o, telegram, millis, stray) ==
    IF o.u8id # 0 THEN Return(o, -2)
    ELSE IF o.u8state # COM_IDLE THEN Return(o, -1)
    ELSE IF telegram.u8id = 0 \/ telegram.u8id > 247 THEN Return(o, -3)
    ELSE LET header == [o EXCEPT
                          !.au16regs  = telegram.au16reg,
                          !.au8Buffer = [@ EXCEPT
                              ![ID]     = telegram.u8id,
                              ![FUNC]   = telegram.u8fct,
                              ![ADD_HI] = highByte(telegram.u16RegAdd),
                              ![ADD_LO] = lowByte(telegram.u16RegAdd)]]
             sent   == sendTxBuffer(queryPayload(header, telegram, stray),
                                    millis, stray)
         IN  Return([sent EXCEPT !.u8state = COM_WAITING], 0)

\* ------------------------------------------------------------ inputs
\* values a read outside an array may yield
StrayBytes == {0, 255}

\* clock advances between two calls
TickSteps == {T35}

\* the watchdog times the host configures
TimeOuts == {TimeOutShort}

\* The CRC as the station at the other end computes it over the bytes of a
\* frame: the same rounds, bytes swapped.
RECURSIVE crcSeqLoop(_, _, _, _)
crcSeqLoop(f, i, last, temp) ==
    IF i > last THEN temp
    ELSE IF i = last THEN crcByte(temp, f[i])
    ELSE LET mid  == (i + last) \div 2
             half == crcSeqLoop(f, i, mid, temp)
         IN  IF half >= 0 THEN crcSeqLoop(f, mid + 1, last, half) ELSE 0

crc16(f) ==
    LET temp == crcSeqLoop(f, 1, Len(f), 65535)
    IN  U16(((temp * 256) % 65536) + (temp \div 256))

\* a frame as it travels: the bytes and their CRC, low byte first, as
\* sendTxBuffer appends it
WithCRC(body) == body \o <<crc16(body) \div 256, crc16(body) % 256>>

\* the same frame damaged on the line: one bit of its first CRC byte flipped
WithBadCRC(body) ==
    body \o <<bitFlip(crc16(body) \div 256, 0), crc16(body) % 256>>

\* a request or reply header: id, function, two 16-bit fields
Header(id, fct, add, nb) ==
    <<id, fct, highByte(add), lowByte(add), highByte(nb), lowByte(nb)>>

\* the frames a slave may find on the bus: requests to it and to another
\* node, in and out of range, with good and bad CRC
RequestBodies ==
    {Header(SlaveId, fct, 0, 2)  : fct \in {1, 3, 4}} \cup
    {Header(SlaveId, 1, 0, 8), Header(SlaveId, 1, 3, 5), Header(SlaveId, 2, 6, 10),
     Header(SlaveId, 3, 14, 2), Header(SlaveId, 3, 2, 0),
     Header(SlaveId, 5, 3, 65280), Header(SlaveId, 5, 3, 0),
     Header(SlaveId, 5, 16, 65280),
     Header(SlaveId, 6, 5, 255), Header(SlaveId, 6, 15, 4660),
     Header(SlaveId, 6, 16, 255),
     Header(SlaveId, 15, 2, 10) \o <<2, 165, 3>>,
     Header(SlaveId, 16, 0, 2) \o <<4, 171, 205, 239, 1>>,
     \* out of range
     Header(SlaveId, 1, 10, 7), Header(SlaveId, 2, 17, 1),
     Header(SlaveId, 3, 16, 1), Header(SlaveId, 4, 0, 17),
     Header(SlaveId, 5, 17, 65280), Header(SlaveId, 6, 17, 1),
     Header(SlaveId, 15, 8, 9) \o <<2, 255, 1>>,
     Header(SlaveId, 16, 15, 2) \o <<4, 0, 1, 0, 2>>,
     \* start + quantity beyond 65535
     Header(SlaveId, 16, 65535, 2) \o <<4, 171, 205, 239, 1>>,
     Header(SlaveId, 3, 65535, 2), Header(SlaveId, 1, 65535, 2),
     \* function codes outside the supported set
     Header(SlaveId, 7, 0, 1), Header(SlaveId, 0, 0, 1),
     Header(SlaveId, 129, 0, 1), Header(SlaveId, 255, 0, 1),
     \* a frame shorter than the minimum
     <<SlaveId, 7>>,
     \* traffic for another node
     Header(OtherId, 6, 5, 255), Header(OtherId, 7, 0, 1),
     Header(OtherId, 16, 0, 2) \o <<4, 171, 205, 239, 1>>}

BadCRCBodies ==
    {Header(SlaveId, 6, 5, 255), Header(SlaveId, 3, 0, 2), Header(SlaveId, 7, 0, 1),
     Header(SlaveId, 16, 0, 2) \o <<4, 171, 205, 239, 1>>,
     Header(OtherId, 6, 5, 255)}

RequestFrames ==
    {WithCRC(b) : b \in RequestBodies} \cup {WithBadCRC(b) : b \in BadCRCBodies}

\* the frames a master may find on the bus: replies, an exception, a damaged one
ReplyFrames ==
    {WithCRC(<<SlaveId, 3, 4, 18, 52, 86, 120>>),
     WithCRC(Header(SlaveId, 6, 5, 255)),
     WithCRC(<<SlaveId, 131, 2>>),
     WithCRC(<<SlaveId, 3, 250, 18, 52, 86, 120>>),
     WithCRC(Header(SlaveId, 7, 0, 1)),
     WithBadCRC(<<SlaveId, 3, 4, 18, 52, 86, 120>>)}

RxFrames(id) == IF id = 0 THEN ReplyFrames ELSE RequestFrames

Telegram(id, fct, add, nb, regs) ==
    [u8id |-> id, u8fct |-> fct, u16RegAdd |-> add, u16CoilsNo |-> nb,
     au16reg |-> regs]

NoTelegram == Telegram(0, 0, 0, 0, <<>>)

\* the descriptors the host hands to query
Telegrams ==
    {Telegram(SlaveId, 1, 0, 8, <<0>>),
     Telegram(SlaveId, 3, 0, 2, <<0, 0>>), Telegram(SlaveId, 4, 258, 1, <<0>>),
     Telegram(SlaveId, 5, 3, 1, <<1>>),
     Telegram(SlaveId, 6, 5, 1, <<255>>),
     Telegram(SlaveId, 15, 2, 10, <<933>>),
     Telegram(247, 16, 1, 2, <<4660, 22136>>),
     Telegram(SlaveId, 16, 0, MAX_BUFFER \div 2, [k \in 1 .. MAX_BUFFER \div 2 |-> k]),
     Telegram(0, 3, 0, 2, <<0, 0>>), Telegram(248, 3, 0, 2, <<0, 0>>)}

\* ------------------------------------------------------------ initial state
\* The object after its constructor (init) and begin(), in static storage:
\* the fields neither sets are zero.  The four spaces hold what the host
\* program put there.
RwRegsInit == [i \in 0 .. SIZE_RW_REGS - 1 |->
                 IF i = 0 THEN 4660 ELSE IF i = 1 THEN 22136 ELSE 256 * i + 255 - i]
RRegsInit  == [i \in 0 .. SIZE_R_REGS - 1 |-> 40960 + i]
RwBitsInit == [i \in 0 .. BitWords - 1 |-> IF i = 0 THEN 42440 ELSE 0]
RBitsInit  == [i \in 0 .. BitWords - 1 |-> IF i = 0 THEN 3855 ELSE 0]

Called(op, telegram, drained) ==
    [op |-> op, telegram |-> telegram, drained |-> drained]

Init ==
    /\ u8id \in {0, SlaveId}
    /\ u8state = COM_IDLE
    /\ u8lastError = 0
    /\ au8Buffer = ZeroBuffer
    /\ u8BufferSize = 0
    /\ u8lastRec = 0
    /\ au16regs = <<>>
    /\ u16InCnt = 0 /\ u16OutCnt = 0 /\ u16errCnt = 0
    /\ u16timeOut = DefaultTimeOut
    /\ r_regArea = RRegsInit /\ rw_regArea = RwRegsInit
    /\ r_bitArea = RBitsInit /\ rw_bitArea = RwBitsInit
    /\ u32time = 0 /\ u32timeOut = 0
    /\ now = 0
    /\ rx = <<>> /\ tx = <<>> /\ ret = 0 /\ oob = FALSE
    /\ u8txenpin = 0 /\ txen = "LOW" /\ txc = FALSE /\ line = <<>>
    /\ call = Called("begin", NoTelegram, <<>>)

\* ------------------------------------------------------------ actions
\* The outcomes of a call: the call is made with each value a read outside
\* an array may yield; a call that touches nothing outside an array (first
\* is its outcome with stray value 0) has the one outcome.
StraysOf(first) == IF first.oob THEN StrayBytes ELSE {0}

\* the clock advances
Tick ==
    /\ \E d \in TickSteps :
         /\ now + d <= MaxNow
         /\ now' = U32(now + d)
    /\ call' = Called("tick", NoTelegram, <<>>)
    /\ tx' = <<>> /\ ret' = 0 /\ oob' = FALSE /\ line' = <<>>
    /\ UNCHANGED <<members, rx, txen, txc>>

\* a frame arrives in the port's empty receive buffer
Receive ==
    /\ u16InCnt < MaxCnt
    /\ rx = <<>>
    /\ \E f \in RxFrames(u8id) :
         /\ Len(f) <= MaxRx
         /\ rx' = f
    /\ call' = Called("receive", NoTelegram, <<>>)
    /\ tx' = <<>> /\ ret' = 0 /\ oob' = FALSE /\ line' = <<>>
    /\ UNCHANGED <<members, now, txen, txc>>

\* setTimeOut(u16timeOut), called from the host's setup()
SetTimeOut ==
    /\ call.op = "begin"
    /\ \E t \in TimeOuts :
         /\ u16timeOut' = t
    /\ call' = Called("setTimeOut", NoTelegram, <<>>)
    /\ tx' = <<>> /\ ret' = 0 /\ oob' = FALSE /\ line' = <<>>
    /\ UNCHANGED <<txen, txc, u8txenpin, u8id, u8state, u8lastError, au8Buffer, u8BufferSize, u8lastRec,
                   au16regs, u16InCnt, u16OutCnt, u16errCnt,
                   r_regArea, rw_regArea, r_bitArea, rw_bitArea, u32time,
                   u32timeOut, now, rx>>

\* query(telegram), called by the host of a master
Query ==
    /\ u8id = 0
    /\ \E telegram \in Telegrams :
         \E first \in {query(Self, telegram, now, 0)} :
         \E o \in {IF stray = 0 THEN first ELSE query(Self, telegram, now, stray) :
                     stray \in StraysOf(first)} :
             /\ o.u16OutCnt <= MaxCnt
             /\ Commit(o)
             /\ call' = Called("query", telegram, <<>>)
    /\ UNCHANGED now

\* poll() of a master
PollMaster ==
    /\ u8id = 0
    /\ \E first \in {pollMaster(Self, now, 0)} :
         \E o \in {IF stray = 0 THEN first ELSE pollMaster(Self, now, stray) :
                     stray \in StraysOf(first)} :
             /\ o.u16errCnt <= MaxCnt
             /\ Commit(o)
             /\ call' = Called("poll", NoTelegram, o.rxed)
    /\ UNCHANGED now

\* poll() of a slave
PollSlave ==
    /\ u8id # 0
    /\ \E first \in {pollSlave(Self, now, 0)} :
         \E o \in {IF stray = 0 THEN first ELSE pollSlave(Self, now, stray) :
                     stray \in StraysOf(first)} :
             /\ Commit(o)
             /\ call' = Called("poll", NoTelegram, o.rxed)
    /\ UNCHANGED now

Next ==
    \/ Tick
    \/ Receive
    \/ SetTimeOut
    \/ Query
    \/ PollMaster
    \/ PollSlave

Spec == Init /\ [][Next]_vars

\* ------------------------------------------------------------ properties
\* the four spaces of the Register Store
Stores == <<r_regArea, rw_regArea, r_bitArea, rw_bitArea>>

\* d ends with the CRC of the bytes before it
GoodCRC(d) == Len(d) >= 3 /\ d = WithCRC(SubSeq(d, 1, Len(d) - 2))

\* the two 16-bit fields of a frame
StartIn(d) == word(d[3], d[4])
CountIn(d) == word(d[5], d[6])

\* this step is a poll of a slave that drains a complete frame
\* (at least the minimum size, below the buffer's size)
SlaveDrains ==
    /\ call'.op = "poll"
    /\ u8id # 0
    /\ Len(call'.drained) >= 7
    /\ Len(call'.drained) < MAX_BUFFER

\* this step is a poll of a slave that drains a complete CRC-valid frame
\* addressed to it with function code fct
SlaveServes(fct) ==
    /\ SlaveDrains
    /\ call'.drained[1] = u8id
    /\ call'.drained[2] = fct
    /\ GoodCRC(call'.drained)

\* the last call was a poll of a slave that drained the frame d
SlaveDrained(d) == call.op = "poll" /\ u8id # 0 /\ call.drained = d

\* ------------------------------------------------------------ C1
\* C1: on a master in WAITING_REPLY every call to query, for any descriptor,
\* returns the code reserved for "already waiting" (ERR_POLLING), transmits
\* nothing and leaves the state, outCount and the watchdog deadline unchanged.
C1_QueryWhileWaiting ==
    [][(call'.op = "query" /\ u8id = 0 /\ u8state = COM_WAITING)
        => /\ ret' = ERR_POLLING
           /\ tx' = <<>>
           /\ u8state' = COM_WAITING
           /\ u16OutCnt' = u16OutCnt
           /\ u32timeOut' = u32timeOut]_vars

\* ------------------------------------------------------------ C2
\* C2: after a successful query on a master with no byte arriving, a poll
\* made before the watchdog deadline leaves the state WAITING_REPLY and
\* errCount unchanged, and the first poll after the deadline returns NoReply,
\* sets lastError to NoReply, increments errCount by one and leaves IDLE.
C2_WatchdogReportsNoReply ==
    [][(call'.op = "poll" /\ u8id = 0 /\ u8state = COM_WAITING /\ rx = <<>>)
        => /\ now <= u32timeOut
              => u8state' = COM_WAITING /\ u16errCnt' = u16errCnt
           /\ now > u32timeOut
              => /\ ret' = ToInt8(NO_REPLY)
                 /\ u8lastError' = NO_REPLY
                 /\ u16errCnt' = u16errCnt + 1
                 /\ u8state' = COM_IDLE]_vars

\* ------------------------------------------------------------ C3
\* the caller's first n values as big-endian 16-bit words
BigEndian(regs, n) ==
    [k \in 1 .. 2 * n |-> IF k % 2 = 1 THEN highByte(regs[(k + 1) \div 2])
                                        ELSE lowByte(regs[k \div 2])]

\* the function-specific payload of the frame for a descriptor
PayloadOf(t) ==
    IF t.u8fct = MB_FC_WRITE_COIL
    THEN <<IF t.au16reg[1] > 0 THEN 255 ELSE 0, 0>>
    ELSE IF t.u8fct = MB_FC_WRITE_REGISTER
    THEN <<highByte(t.au16reg[1]), lowByte(t.au16reg[1])>>
    ELSE IF t.u8fct = MB_FC_WRITE_MULTIPLE_REGISTERS
    THEN <<highByte(t.u16CoilsNo), lowByte(t.u16CoilsNo), t.u16CoilsNo * 2>>
         \o BigEndian(t.au16reg, t.u16CoilsNo)
    ELSE <<highByte(t.u16CoilsNo), lowByte(t.u16CoilsNo)>>

\* the frame for a descriptor:
\* [target][function][start-hi][start-lo][payload][crcLow][crcHigh]
FrameOf(t) ==
    WithCRC(<<t.u8id, t.u8fct, highByte(t.u16RegAdd), lowByte(t.u16RegAdd)>>
            \o PayloadOf(t))

\* C3: a query accepted by a master in IDLE (target in 1..247, function code
\* in {1,2,3,4,5,6,16}) transmits exactly the one frame of its descriptor,
\* increments outCount by one, sets the state WAITING_REPLY and arms the
\* watchdog to now + the configured timeout; for function 16 the payload is
\* the quantity, the byte count quantity x 2 and the caller's values.
C3_QueryTransmitsFrame ==
    [][(/\ call'.op = "query"
        /\ u8id = 0
        /\ u8state = COM_IDLE
        /\ call'.telegram.u8id \in 1 .. 247
        /\ call'.telegram.u8fct \in {1, 2, 3, 4, 5, 6, 16})
        => /\ tx' = <<FrameOf(call'.telegram)>>
           /\ u16OutCnt' = u16OutCnt + 1
           /\ u8state' = COM_WAITING
           /\ u32timeOut' = U32(now + u16timeOut)]_vars

ExceptionFrame(id, fct, code) ==
    WithCRC(<<id, IF fct >= 128 THEN fct ELSE fct + 128, code>>)

\* C5: for every CRC-valid request addressed to the slave with function code
\* 1, 2, 3, 4, 15 or 16 whose start address plus quantity, as an unbounded
\* sum, exceeds the 16 elements of the space, the slave replies with
\* exception 2 (IllegalDataAddress), touches nothing outside the space and
\* changes no element of any space.
C5_RangeExceptionUnboundedSum ==
    [][(/\ \E fct \in {1, 2, 3, 4, 15, 16} : SlaveServes(fct)
        /\ StartIn(call'.drained) + CountIn(call'.drained) > SIZE_RW_REGS)
        => /\ tx' = <<ExceptionFrame(u8id, call'.drained[2], EXC_ADDR_RANGE)>>
           /\ ~oob'
           /\ Stores' = Stores]_vars

\* ------------------------------------------------------------ C6
\* C6: for every complete CRC-valid request addressed to the slave whose
\* function-code byte (0..255) is none of the eight supported codes, the
\* slave transmits exactly one exception frame of five bytes, [own id]
\* [function code with bit 0x80 set][1][crc], and modifies no space.
C6_IllegalFunctionException ==
    [][(/\ \E fct \in (0 .. 255) \ {1, 2, 3, 4, 5, 6, 15, 16} : SlaveServes(fct))
        => /\ tx' = <<ExceptionFrame(u8id, call'.drained[2], EXC_FUNC_CODE)>>
           /\ Stores' = Stores]_vars

\* ------------------------------------------------------------ C7
\* C7: when a slave drains a frame addressed to it whose last two bytes are
\* not the CRC-16 of the bytes before them, the poll transmits nothing,
\* leaves outCount unchanged and modifies no space, for every function code
\* and payload.
C7_BadCrcSilent ==
    [][(/\ call'.op = "poll"
        /\ u8id # 0
        /\ Len(call'.drained) >= 3
        /\ Len(call'.drained) < MAX_BUFFER
        /\ call'.drained[1] = u8id
        /\ ~GoodCRC(call'.drained))
        => /\ tx' = <<>>
           /\ u16OutCnt' = u16OutCnt
           /\ Stores' = Stores]_vars

\* C7's case: a slave has drained a write request addressed to it with a
\* damaged CRC; the poll reported NO_REPLY and sent nothing
C7_Witness ==
    /\ SlaveDrained(WithBadCRC(Header(u8id, MB_FC_WRITE_REGISTER, 5, 255)))
    /\ u8lastError = NO_REPLY
    /\ ret = ToInt8(NO_REPLY)
    /\ tx = <<>>
    /\ rw_regArea = RwRegsInit

\* ------------------------------------------------------------ C8
\* C8: for every validated FC6 request with address a in 0..15 and value v,
\* after the poll the read-write register space holds v at a, every other
\* element of every space is unchanged, and the reply is the request's
\* 6-byte header followed by its CRC.
C8_WriteSingleRegister ==
    [][(SlaveServes(MB_FC_WRITE_REGISTER) /\ StartIn(call'.drained) < SIZE_RW_REGS)
        => /\ rw_regArea' = [rw_regArea EXCEPT ![StartIn(call'.drained)] =
                                                   CountIn(call'.drained)]
           /\ r_regArea' = r_regArea
           /\ r_bitArea' = r_bitArea
           /\ rw_bitArea' = rw_bitArea
           /\ tx' = <<WithCRC(SubSeq(call'.drained, 1, RESPONSE_SIZE))>>]_vars

\* C8's case: a slave has served the request to write 0x1234 at address 15,
\* holds the value there and has echoed the request
C8_Witness ==
    /\ SlaveDrained(WithCRC(Header(u8id, MB_FC_WRITE_REGISTER, 15, 4660)))
    /\ rw_regArea = [RwRegsInit EXCEPT ![15] = 4660]
    /\ rw_regArea # RwRegsInit
    /\ tx = <<call.drained>>
    /\ ret = 8

\* ------------------------------------------------------------ C9
\* the words of a space at s .. s+q-1, high byte then low byte
WordsOf(area, s, q) ==
    [k \in 1 .. 2 * q |-> IF k % 2 = 1 THEN highByte(area[s + ((k - 1) \div 2)])
                                        ELSE lowByte(area[s + ((k - 1) \div 2)])]

\* C9: for every validated FC3 request with start s and quantity q,
\* s + q <= 16, the reply is [id][3][2q], the q words of the read-write
\* register space at s..s+q-1, high byte first, and the CRC; the register
\* space is left unchanged.
C9_ReadHoldingRegisters ==
    [][(/\ SlaveServes(MB_FC_READ_REGISTERS)
        /\ StartIn(call'.drained) + CountIn(call'.drained) <= SIZE_RW_REGS)
        => /\ tx' = <<WithCRC(<<u8id, MB_FC_READ_REGISTERS,
                                2 * CountIn(call'.drained)>>
                              \o WordsOf(rw_regArea, StartIn(call'.drained),
                                         CountIn(call'.drained)))>>
           /\ rw_regArea' = rw_regArea]_vars

\* ------------------------------------------------------------ C10
\* the reply f packs the q bits of area from s on, LSB first, behind the
\* byte count ceil(q/8)
PacksBits(f, area, s, q) ==
    /\ Len(f) = 3 + ((q + 7) \div 8) + CHECKSUM_SIZE
    /\ f[3] = (q + 7) \div 8
    /\ \A i \in 0 .. q - 1 :
         bitRead(f[4 + (i \div 8)], i % 8)
           = bitRead(area[(s + i) \div 16], (s + i) % 16)

\* C10: for every validated FC1 request with start s and quantity q,
\* s + q <= 16, the reply carries the byte count ceil(q/8) and bit (i mod 8)
\* of payload byte (i div 8) is bit s+i of the read-write bit space.
C10_ReadCoilsPacking ==
    [][(/\ SlaveServes(MB_FC_READ_COILS)
        /\ StartIn(call'.drained) + CountIn(call'.drained) <= SIZE_RW_BITS)
        => /\ Len(tx') = 1
           /\ tx'[1][1] = u8id
           /\ tx'[1][2] = MB_FC_READ_COILS
           /\ PacksBits(tx'[1], rw_bitArea, StartIn(call'.drained),
                        CountIn(call'.drained))]_vars

\* C10's case: a slave whose coil 3 is set has served the request for the
\* coils 0..7 and replied with byte count 1 and a payload byte with bit 3 set
C10_Witness ==
    /\ SlaveDrained(WithCRC(Header(u8id, MB_FC_READ_COILS, 0, 8)))
    /\ bitRead(rw_bitArea[0], 3) = 1
    /\ Len(tx) = 1
    /\ tx[1][3] = 1
    /\ tx[1][4] = rw_bitArea[0] % 256
    /\ bitRead(tx[1][4], 3) = 1

\* ------------------------------------------------------------ C11
\* The CRC round trip: a slave whose frame buffer holds a byte sequence
\* sends it (sendTxBuffer appends the CRC), the frame comes back over the
\* line as sent or with one bit inverted, and is drained and validated.

\* longest byte sequence sent
CrcMaxLen == 3

\* the byte values of the sequences
CrcBytes == {0, 1, 128, 255}

\* the sequences of at most CrcMaxLen bytes
CrcBodies == UNION {[1 .. n -> CrcBytes] : n \in 0 .. CrcMaxLen}

\* the frame buffer holding the sequence body from index 0 on
Loaded(body) ==
    [i \in 0 .. MAX_BUFFER - 1 |-> IF i < Len(body) THEN body[i + 1] ELSE 0]

\* bit k of the frame f inverted (bit k % 8 of byte k / 8)
FlipAt(f, k) == [f EXCEPT ![(k \div 8) + 1] = bitFlip(@, k % 8)]

CrcInit ==
    /\ u8id = SlaveId
    /\ u8state = COM_IDLE
    /\ u8lastError = 0
    /\ \E body \in CrcBodies :
         /\ au8Buffer = Loaded(body)
         /\ u8BufferSize = Len(body)
    /\ u8lastRec = 0
    /\ au16regs = <<>>
    /\ u16InCnt = 0 /\ u16OutCnt = 0 /\ u16errCnt = 0
    /\ u16timeOut = DefaultTimeOut
    /\ r_regArea = RRegsInit /\ rw_regArea = RwRegsInit
    /\ r_bitArea = RBitsInit /\ rw_bitArea = RwBitsInit
    /\ u32time = 0 /\ u32timeOut = 0
    /\ now = 0
    /\ rx = <<>> /\ tx = <<>> /\ ret = 0 /\ oob = FALSE
    /\ u8txenpin = 0 /\ txen = "LOW" /\ txc = FALSE /\ line = <<>>
    /\ call = Called("begin", NoTelegram, <<>>)

\* sendTxBuffer() on the loaded buffer
CrcSend ==
    /\ call.op = "begin"
    /\ \E o \in {sendTxBuffer(Self, now, 0)} : Commit(o)
    /\ call' = Called("send", NoTelegram, <<>>)
    /\ UNCHANGED now

\* the frame sent arrives in the port, as sent (k = -1) or with bit k inverted
CrcLoopBack ==
    /\ call.op = "send"
    /\ \E k \in -1 .. 8 * Len(tx[1]) - 1 :
         rx' = IF k < 0 THEN tx[1] ELSE FlipAt(tx[1], k)
    /\ call' = Called("receive", NoTelegram, <<>>)
    /\ UNCHANGED <<members, now, tx, ret, oob, txen, txc, line>>

\* getRxBuffer() and the CRC check of validateRequest: ret = 1 when the
\* frame passes it
CrcValidate ==
    /\ call.op = "receive"
    /\ \E got \in {getRxBuffer(Self)} :
         /\ Commit([got EXCEPT !.tx = tx,
                               !.r  = IF crcMatches(got, 0) THEN 1 ELSE 0])
         /\ call' = Called("validate", NoTelegram, got.rxed)
    /\ UNCHANGED now

CrcNext ==
    \/ CrcSend
    \/ CrcLoopBack
    \/ CrcValidate

CrcSpec == CrcInit /\ [][CrcNext]_vars

\* C11: the frame made by appending the CRC the engine computes passes the
\* engine's CRC validation, and that frame with any single bit inverted, in
\* the data or in the CRC bytes, fails it.
C11_CrcRoundTrip ==
    call.op = "validate" => (ret = 1 <=> call.drained = tx[1])

\* C11's case: a three-byte sequence was sent; the frame came back with one
\* bit of its data inverted and failed the validation
C11_Witness ==
    /\ call.op = "validate"
    /\ Len(tx[1]) = CrcMaxLen + CHECKSUM_SIZE
    /\ call.drained # tx[1]
    /\ SubSeq(call.drained, CrcMaxLen + 1, CrcMaxLen + 2)
         = SubSeq(tx[1], CrcMaxLen + 1, CrcMaxLen + 2)
    /\ ret = 0

\* ------------------------------------------------------------ host accessors
\* The error codes of the accessors: the file uses the two names and
\* defines neither; they stand for two distinct nonzero codes.
ERROR_OF_ADR     == 1
ERROR_OF_POINTER == 2

\* the number of elements a multi-register accessor is asked for
MaxRegs == 2

\* What an accessor call leaves: the object, the return value and the
\* values stored through the caller's pointer.
Accessed(o, r, out) == [self |-> o, r |-> r, out |-> out]

\* area[i] read by an accessor: outside the array it yields a stray word
RegRead(area, i, size, stray) == IF InRegs(i, size) THEN area[i] ELSE word(stray, stray)

\* uint8_t GetRReg(uint16_t adrReg, uint16_t* pReg)
GetRReg(o, adrReg, null, stray) ==
    IF adrReg >= SIZE_R_REGS THEN Accessed(o, ERROR_OF_ADR, <<>>)
    ELSE IF null THEN Accessed(o, ERROR_OF_POINTER, <<>>)
    ELSE Accessed(o, 0, <<o.r_regArea[adrReg]>>)

\* the loop of GetRRegs and GetRWRegs (its increment reads "++": i++);
\* adrReg + i is a 16-bit sum
getRegsLoop(o, area, size, adrReg, nRegs, stray) ==
    LET at(i) == U16(adrReg + i)
        touched == {at(i) : i \in 0 .. nRegs - 1}
    IN  Accessed([o EXCEPT !.oob = @ \/ \E j \in touched : ~InRegs(j, size)],
                 0,
                 [k \in 1 .. nRegs |-> RegRead(area, at(k - 1), size, stray)])

\* uint8_t GetRRegs(uint16_t adrReg, uint16_t* pRegs, uint16_t nRegs)
GetRRegs(o, adrReg, nRegs, null, stray) ==
    IF U16(adrReg + nRegs) >= SIZE_R_REGS THEN Accessed(o, ERROR_OF_ADR, <<>>)
    ELSE IF null THEN Accessed(o, ERROR_OF_POINTER, <<>>)
    ELSE getRegsLoop(o, o.r_regArea, SIZE_R_REGS, adrReg, nRegs, stray)

\* uint8_t GetRWReg(uint16_t adrReg, uint16_t* pReg)
GetRWReg(o, adrReg, null, stray) ==
    IF adrReg >= SIZE_RW_REGS THEN Accessed(o, ERROR_OF_ADR, <<>>)
    ELSE IF null THEN Accessed(o, ERROR_OF_POINTER, <<>>)
    ELSE Accessed(o, 0, <<o.rw_regArea[adrReg]>>)

\* uint8_t GetRWRegs(uint16_t adrReg, uint16_t* pRegs, uint16_t nRegs)
GetRWRegs(o, adrReg, nRegs, null, stray) ==
    IF U16(adrReg + nRegs) >= SIZE_RW_REGS THEN Accessed(o, ERROR_OF_ADR, <<>>)
    ELSE IF null THEN Accessed(o, ERROR_OF_POINTER, <<>>)
    ELSE getRegsLoop(o, o.rw_regArea, SIZE_RW_REGS, adrReg, nRegs, stray)

\* SetRWReg without its assignment
SetRWReg_NoStore(o, adrReg, null, reg) ==
    IF adrReg >= SIZE_RW_REGS THEN Accessed(o, ERROR_OF_ADR, <<>>)
    ELSE IF null THEN Accessed(o, ERROR_OF_POINTER, <<>>)
    ELSE Accessed(o, 0, <<>>)

\* uint8_t SetRWReg(uint16_t adrReg, uint16_t* pReg), reg = *pReg
SetRWReg(o, adrReg, null, reg) ==
    IF adrReg >= SIZE_RW_REGS THEN Accessed(o, ERROR_OF_ADR, <<>>)
    ELSE IF null THEN Accessed(o, ERROR_OF_POINTER, <<>>)
    ELSE Accessed([o EXCEPT !.rw_regArea = RegWrite(@, adrReg, reg)], 0, <<>>)

\* The bit accessors name the address adrReg where they index the space, a
\* name they do not declare: it is read as their address parameter adrBit.
\* uint8_t GetRBit(uint16_t adrBit, uint8_t* pBit)
GetRBit(o, adrBit, null, stray) ==
    IF adrBit >= SIZE_R_BITS THEN Accessed(o, ERROR_OF_ADR, <<>>)
    ELSE IF null THEN Accessed(o, ERROR_OF_POINTER, <<>>)
    ELSE Accessed(o, 0, <<BitAreaRead(o.r_bitArea, adrBit \div 16, adrBit % 16, stray)>>)

\* uint8_t GetRwBit(uint16_t adrBit, uint8_t* pBit)
GetRwBit(o, adrBit, null, stray) ==
    IF adrBit >= SIZE_RW_BITS THEN Accessed(o, ERROR_OF_ADR, <<>>)
    ELSE IF null THEN Accessed(o, ERROR_OF_POINTER, <<>>)
    ELSE Accessed(o, 0, <<BitAreaRead(o.rw_bitArea, adrBit \div 16, adrBit % 16, stray)>>)

\* uint8_t SetRwBit(uint16_t adrBit, uint8_t* pBit), bit = *pBit
SetRwBit(o, adrBit, null, bit) ==
    IF adrBit >= SIZE_RW_BITS THEN Accessed(o, ERROR_OF_ADR, <<>>)
    ELSE IF null THEN Accessed(o, ERROR_OF_POINTER, <<>>)
    ELSE Accessed([o EXCEPT !.rw_bitArea =
                      BitAreaWrite(@, adrBit \div 16, adrBit % 16, bit)], 0, <<>>)

\* ---- the host program calling the accessors
\* the addresses, counts and values the host passes
StoreAdrs  == (0 .. SIZE_RW_REGS + 1) \cup {65534, 65535}
StoreCounts == 1 .. MaxRegs
StoreWords == {0, 43981}
StoreBits  == {0, 1}

\* the accessor names
Getters == {"GetRReg", "GetRRegs", "GetRWReg", "GetRWRegs", "GetRBit", "GetRwBit"}
Setters == {"SetRWReg", "SetRwBit"}

\* the arguments of an accessor call: address, count, the value behind the
\* pointer, and whether the pointer is NULL
Args(adr, n, val, null) == [adr |-> adr, n |-> n, val |-> val, null |-> null]

\* the call op(args), a read outside an array yielding stray
AccessorCall(op, a, stray) ==
    CASE op = "GetRReg"   -> GetRReg(Self, a.adr, a.null, stray)
      [] op = "GetRRegs"  -> GetRRegs(Self, a.adr, a.n, a.null, stray)
      [] op = "GetRWReg"  -> GetRWReg(Self, a.adr, a.null, stray)
      [] op = "GetRWRegs" -> GetRWRegs(Self, a.adr, a.n, a.null, stray)
      [] op = "SetRWReg"  -> SetRWReg(Self, a.adr, a.null, a.val)
      [] op = "GetRBit"   -> GetRBit(Self, a.adr, a.null, stray)
      [] op = "GetRwBit"  -> GetRwBit(Self, a.adr, a.null, stray)
      [] op = "SetRwBit"  -> SetRwBit(Self, a.adr, a.null, a.val)

\* the argument lists of the accessor op
ArgsOf(op) ==
    {Args(adr, n, val, null) :
       adr \in StoreAdrs,
       n \in IF op \in {"GetRRegs", "GetRWRegs"} THEN StoreCounts ELSE {1},
       val \in IF op = "SetRWReg" THEN StoreWords
               ELSE IF op = "SetRwBit" THEN StoreBits ELSE {0},
       null \in BOOLEAN}

Access(op) ==
    \E a \in ArgsOf(op) :
      \E first \in {AccessorCall(op, a, 0)} :
        \E stray \in StraysOf(first.self) :
          \E done \in {AccessorCall(op, a, stray)} :
            /\ Commit([Return(done.self, done.r) EXCEPT !.rx = rx])
            /\ call' = Called(op, a, done.out)
            /\ UNCHANGED now

\* the host stores a value: its first accessor call
StoreSet ==
    /\ call.op = "begin"
    /\ \E op \in Setters : Access(op)

\* the host reads: its first call, or the call right after a store
StoreGet ==
    /\ call.op \in {"begin"} \cup Setters
    /\ \E op \in Getters : Access(op)

StoreNext ==
    \/ StoreSet
    \/ StoreGet

StoreSpec == Init /\ [][StoreNext]_vars

\* the four spaces
Spaces == <<r_regArea, rw_regArea, r_bitArea, rw_bitArea>>

\* C12: an accessor call with addr + count > capacity returns the address
\* error, touches no element outside the space and leaves the four spaces
\* as they were.
C12_AccessorBounds ==
    [][(call'.op \in Getters \cup Setters
         /\ call'.telegram.adr + call'.telegram.n > SIZE_RW_REGS)
       => (ret' = ERROR_OF_ADR /\ ~oob' /\ UNCHANGED Spaces)]_vars

\* a store through op at an address inside the space, followed at once by
\* the read through get of the same address, both with a pointer
SetThenGet(set, get) ==
    /\ call.op = set /\ call'.op = get
    /\ call.telegram.adr \in 0 .. SIZE_RW_REGS - 1
    /\ call'.telegram.adr = call.telegram.adr
    /\ ~call.telegram.null /\ ~call'.telegram.null

SlaveTelegrams ==
    {Telegram(OtherId, 3, 0, 2, <<0, 0>>), Telegram(0, 6, 5, 1, <<255>>)}

\* query(telegram), called by the host of a slave
QueryOnSlave ==
    /\ u8id # 0
    /\ \E telegram \in SlaveTelegrams :
         \E o \in {query(Self, telegram, now, 0)} :
             /\ Commit(o)
             /\ call' = Called("query", telegram, <<>>)
    /\ UNCHANGED now

RoleNext ==
    \/ Tick
    \/ Receive
    \/ SetTimeOut
    \/ Query
    \/ QueryOnSlave
    \/ PollMaster
    \/ PollSlave

RoleSpec == Init /\ [][RoleNext]_vars

\* a call that sends nothing and leaves the state, the frame buffer, the
\* counters and the watchdog deadline as they were
Untouched ==
    /\ tx' = <<>>
    /\ UNCHANGED <<u8state, au8Buffer, u8BufferSize,
                   u16InCnt, u16OutCnt, u16errCnt, u32timeOut>>

\* C14: query on an engine whose own address is nonzero returns the code
\* for "not master" (ERR_NOT_MASTER); query with target address 0 or above
\* 247 on an idle master returns an error code of its own; either way
\* nothing is sent and the state, the frame buffer, the counters and the
\* watchdog deadline are unchanged.
C14_QueryRejected ==
    [][call'.op = "query"
        => /\ u8id # 0 => (ret' = ERR_NOT_MASTER /\ Untouched)
           /\ (u8id = 0 /\ u8state = COM_IDLE
                 /\ (call'.telegram.u8id = 0 \/ call'.telegram.u8id > 247))
              => (ret' < 0 /\ ret' \notin {ERR_NOT_MASTER, ERR_POLLING}
                    /\ Untouched)]_vars

\* ------------------------------------------------------------ C15
\* The engine long after its start: millis() is one tick short of the value
\* at which the 32-bit counter wraps to 0.
WrapStart == ClockMod - 1

WrapInit ==
    /\ u8id \in {0, SlaveId}
    /\ u8state = COM_IDLE
    /\ u8lastError = 0
    /\ au8Buffer = ZeroBuffer
    /\ u8BufferSize = 0
    /\ u8lastRec = 0
    /\ au16regs = <<>>
    /\ u16InCnt = 0 /\ u16OutCnt = 0 /\ u16errCnt = 0
    /\ u16timeOut = DefaultTimeOut
    /\ r_regArea = RRegsInit /\ rw_regArea = RwRegsInit
    /\ r_bitArea = RBitsInit /\ rw_bitArea = RwBitsInit
    /\ u32time = 0 /\ u32timeOut = 0
    /\ now = WrapStart
    /\ rx = <<>> /\ tx = <<>> /\ ret = 0 /\ oob = FALSE
    /\ u8txenpin = 0 /\ txen = "LOW" /\ txc = FALSE /\ line = <<>>
    /\ call = Called("begin", NoTelegram, <<>>)

\* the clock value t counted from the wrap point: negative before it
FromWrap(t) == IF t >= ClockMod \div 2 THEN t - ClockMod ELSE t

\* the clock advances, through the wrap point
WrapTick ==
    /\ \E d \in TickSteps :
         /\ FromWrap(now) + d <= MaxNow
         /\ now' = U32(now + d)
    /\ call' = Called("tick", NoTelegram, <<>>)
    /\ tx' = <<>> /\ ret' = 0 /\ oob' = FALSE /\ line' = <<>>
    /\ UNCHANGED <<members, rx, txen, txc>>

WrapNext ==
    \/ WrapTick
    \/ Receive
    \/ SetTimeOut
    \/ Query
    \/ PollMaster
    \/ PollSlave

WrapSpec == WrapInit /\ [][WrapNext]_vars

\* the time passed, modulo 2^w, since the deadline was set to its setting
\* time plus span
ElapsedSince(deadline, span) == U32(now - U32(deadline - span))

\* C15: with the clock wrapping modulo 2^w, the poll of a waiting master
\* with no byte in the port gives up (NoReply) only when at least the
\* configured timeout has passed since the query, and a poll of either role
\* drains the port only when at least T35 has passed since the silence
\* deadline was set; time passed is taken modulo 2^w.
C15_WrapSafeDeadlines ==
    [][call'.op = "poll"
        => /\ (u8id = 0 /\ u8state = COM_WAITING /\ rx = <<>>
                 /\ u8state' = COM_IDLE)
              => ElapsedSince(u32timeOut, u16timeOut) >= u16timeOut
           /\ call'.drained # <<>>
              => ElapsedSince(u32time, T35) >= T35]_vars

\* ------------------------------------------------------------ C16
\* The engine in RS-485 mode.  The pins the constructor is given: 1 is
\* reserved (no flow control), 2 is the first usable one.
TxEnPins == {1, 2}

\* After begin(): a usable pin is an output driven LOW; the UART's
\* transmit-complete flag is as earlier use of the port left it.
TxInit ==
    /\ u8id \in {0, SlaveId}
    /\ u8state = COM_IDLE
    /\ u8lastError = 0
    /\ au8Buffer = ZeroBuffer
    /\ u8BufferSize = 0
    /\ u8lastRec = 0
    /\ au16regs = <<>>
    /\ u16InCnt = 0 /\ u16OutCnt = 0 /\ u16errCnt = 0
    /\ u16timeOut = DefaultTimeOut
    /\ r_regArea = RRegsInit /\ rw_regArea = RwRegsInit
    /\ r_bitArea = RBitsInit /\ rw_bitArea = RwBitsInit
    /\ u32time = 0 /\ u32timeOut = 0
    /\ now = 0
    /\ rx = <<>> /\ tx = <<>> /\ ret = 0 /\ oob = FALSE
    /\ u8txenpin \in TxEnPins /\ txen = "LOW" /\ txc \in BOOLEAN /\ line = <<>>
    /\ call = Called("begin", NoTelegram, <<>>)

\* the descriptors the host of the master passes to query
TxTelegrams ==
    {Telegram(SlaveId, 3, 0, 2, <<0, 0>>), Telegram(SlaveId, 6, 5, 1, <<255>>)}

\* query(telegram), called by the host of the master
TxQuery ==
    /\ u8id = 0
    /\ \E telegram \in TxTelegrams :
         \E o \in {query(Self, telegram, now, 0)} :
             /\ o.u16OutCnt <= MaxCnt
             /\ Commit(o)
             /\ call' = Called("query", telegram, <<>>)
    /\ UNCHANGED now

TxNext ==
    \/ Tick
    \/ Receive
    \/ TxQuery
    \/ PollMaster
    \/ PollSlave

TxSpec == TxInit /\ [][TxNext]_vars

\* the last call wrote a frame to the port
Transmitted == \E k \in 1 .. Len(line) : line[k] = "write"

C17_SingleWriteRange ==
    [][(/\ \E fct \in {5, 6} : SlaveServes(fct)
        /\ StartIn(call'.drained) >= SIZE_RW_REGS)
        => /\ tx' = <<ExceptionFrame(u8id, call'.drained[2], EXC_ADDR_RANGE)>>
           /\ ~oob'
           /\ Stores' = Stores]_vars

\* ------------------------------------------------------------ C18
\* C18: a poll of a master that is IDLE, at any clock value and with any
\* bytes in the port, leaves the state IDLE and leaves lastError, errCount
\* and the caller's array of values unchanged.
C18_IdlePollInert ==
    [][(call'.op = "poll" /\ u8id = 0 /\ u8state = COM_IDLE)
        => /\ u8state' = COM_IDLE
           /\ UNCHANGED <<u8lastError, u16errCnt, au16regs>>]_vars

\* ------------------------------------------------------------ C19
\* the frame is a CRC-valid exception frame of five bytes
IsExceptionFrame(f) ==
    /\ Len(f) = EXCEPTION_SIZE + CHECKSUM_SIZE
    /\ f[2] >= 128
    /\ GoodCRC(f)

\* C19: when a waiting master drains, before its watchdog deadline, a
\* CRC-valid five-byte exception frame, the poll returns the exception error
\* (ERR_EXCEPTION), leaves the state IDLE, increments errCount by exactly
\* one and leaves the caller's array of values unchanged.
C19_ExceptionReply ==
    [][(/\ call'.op = "poll" /\ u8id = 0 /\ u8state = COM_WAITING
        /\ IsExceptionFrame(call'.drained))
        => /\ ret' = ERR_EXCEPTION
           /\ u8state' = COM_IDLE
           /\ u16errCnt' = u16errCnt + 1
           /\ au16regs' = au16regs]_vars

\* ------------------------------------------------------------ C20
\* The port holding a long run of bytes: one byte less than the frame
\* buffer holds, as many, and one more.
LongLens == {MAX_BUFFER - 1, MAX_BUFFER, MAX_BUFFER + 1}
LongFrames == {[k \in 1 .. n |-> k % 256] : n \in LongLens}

\* a long run of bytes arrives in the port's empty receive buffer
ReceiveLong ==
    /\ u16InCnt < MaxCnt
    /\ rx = <<>>
    /\ \E f \in LongFrames : rx' = f
    /\ call' = Called("receive", NoTelegram, <<>>)
    /\ tx' = <<>> /\ ret' = 0 /\ oob' = FALSE /\ line' = <<>>
    /\ UNCHANGED <<members, now, txen, txc>>

\* poll() of a master; an overflowing drain counts two errors
PollMasterLong ==
    /\ u8id = 0
    /\ \E first \in {pollMaster(Self, now, 0)} :
         \E o \in {IF stray = 0 THEN first ELSE pollMaster(Self, now, stray) :
                     stray \in StraysOf(first)} :
             /\ o.u16errCnt <= MaxCnt + 1
             /\ Commit(o)
             /\ call' = Called("poll", NoTelegram, o.rxed)
    /\ UNCHANGED now

LongNext ==
    \/ Tick
    \/ ReceiveLong
    \/ TxQuery
    \/ PollMasterLong
    \/ PollSlave

LongSpec == Init /\ [][LongNext]_vars

\* C20: a poll that drains a port holding 64 bytes or more returns the
\* buffer-overflow error, leaves a master IDLE, and stores no byte at a
\* frame-buffer index of 64 or more.
C20_DrainOverflow ==
    [][(call'.op = "poll" /\ call'.drained # <<>> /\ Len(rx) >= MAX_BUFFER)
        => /\ ret' = ERR_BUFF_OVERFLOW
           /\ u8id = 0 => u8state' = COM_IDLE
           /\ ~oob']_vars

\* ------------------------------------------------------------ C21
\* C21: the reply to a validated FC2 request packs the addressed bits of
\* the read-only bit space, and the reply to a validated FC4 request carries
\* the addressed words of the read-only register space.
C21_ReadOnlySpacesServed ==
    [][/\ (/\ SlaveServes(MB_FC_READ_DISCRETE_INPUT)
           /\ StartIn(call'.drained) + CountIn(call'.drained) <= SIZE_R_BITS)
          => /\ Len(tx') = 1
             /\ tx'[1][2] = MB_FC_READ_DISCRETE_INPUT
             /\ PacksBits(tx'[1], r_bitArea, StartIn(call'.drained),
                          CountIn(call'.drained))
       /\ (/\ SlaveServes(MB_FC_READ_INPUT_REGISTER)
           /\ StartIn(call'.drained) + CountIn(call'.drained) <= SIZE_R_REGS)
          => tx' = <<WithCRC(<<u8id, MB_FC_READ_INPUT_REGISTER,
                               2 * CountIn(call'.drained)>>
                             \o WordsOf(r_regArea, StartIn(call'.drained),
                                        CountIn(call'.drained)))>>]_vars

\* ------------------------------------------------------------ C22
\* the slave's poll answered with a normal reply: the request passed all
\* validation
RepliedNormally == Len(tx') = 1 /\ tx'[1][2] < 128

\* C22: a poll of a slave sets the watchdog deadline to now + timeout when
\* the request it drained passed all validation, and leaves the deadline as
\* it was otherwise: no activity, a frame still arriving, a short frame, a
\* frame for another node, a CRC mismatch, a transmitted exception reply.
C22_WatchdogRearm ==
    [][(call'.op = "poll" /\ u8id # 0)
        => IF RepliedNormally
           THEN u32timeOut' = U32(now + u16timeOut)
           ELSE u32timeOut' = u32timeOut]_vars

\* ------------------------------------------------------------ C23
\* The master with the clock running on for ever, modulo 2^w.  The host
\* makes its query at millis() = 0 or at the clock value whose deadline,
\* millis() + timeout, is the largest value the counter holds.
LiveStarts == {0, ClockMod - 1 - DefaultTimeOut}

\* the bytes that may come in one at a time
MaxTrickle == 2

LiveInit ==
    /\ u8id = 0
    /\ u8state = COM_IDLE
    /\ u8lastError = 0
    /\ au8Buffer = ZeroBuffer
    /\ u8BufferSize = 0
    /\ u8lastRec = 0
    /\ au16regs = <<>>
    /\ u16InCnt = 0 /\ u16OutCnt = 0 /\ u16errCnt = 0
    /\ u16timeOut = DefaultTimeOut
    /\ r_regArea = RRegsInit /\ rw_regArea = RwRegsInit
    /\ r_bitArea = RBitsInit /\ rw_bitArea = RwBitsInit
    /\ u32time = 0 /\ u32timeOut = 0
    /\ now \in LiveStarts
    /\ rx = <<>> /\ tx = <<>> /\ ret = 0 /\ oob = FALSE
    /\ u8txenpin = 0 /\ txen = "LOW" /\ txc = FALSE /\ line = <<>>
    /\ call = Called("begin", NoTelegram, <<>>)

\* the host's one query
LiveQuery ==
    /\ call.op = "begin"
    /\ \E telegram \in {Telegram(SlaveId, 3, 0, 2, <<0, 0>>)} :
         \E o \in {query(Self, telegram, now, 0)} :
             /\ Commit(o)
             /\ call' = Called("query", telegram, <<>>)
    /\ UNCHANGED now

\* what arrives behind the query: the first bytes of a reply
LiveFrames == {<<SlaveId, 3>>, <<SlaveId, 3, 4>>}

LiveReceive ==
    /\ call.op = "query"
    /\ \E f \in LiveFrames : rx' = f
    /\ call' = Called("receive", NoTelegram, <<>>)
    /\ tx' = <<>> /\ ret' = 0 /\ oob' = FALSE /\ line' = <<>>
    /\ UNCHANGED <<members, now, txen, txc>>

\* one more byte comes in, behind the query or behind the bytes waiting
\* in the port
LiveTrickle ==
    /\ u8state = COM_WAITING
    /\ call.op = "query" \/ rx # <<>>
    /\ Len(rx) < MaxTrickle
    /\ rx' = Append(rx, 0)
    /\ call' = Called("receive", NoTelegram, <<>>)
    /\ tx' = <<>> /\ ret' = 0 /\ oob' = FALSE /\ line' = <<>>
    /\ UNCHANGED <<members, now, txen, txc>>

\* one round of the host's loop while the master waits: a millisecond
\* passes and poll() is called
LivePoll ==
    /\ u8state = COM_WAITING
    /\ \E millis \in {U32(now + 1)} :
         /\ now' = millis
         /\ \E first \in {pollMaster(Self, millis, 0)} :
              \E o \in {IF stray = 0 THEN first ELSE pollMaster(Self, millis, stray) :
                          stray \in StraysOf(first)} :
                  /\ Commit(o)
                  /\ call' = Called("poll", NoTelegram, o.rxed)

LiveNext ==
    \/ LiveQuery
    \/ LiveReceive
    \/ LiveTrickle
    \/ LivePoll

\* the clock keeps advancing and poll keeps being called
LiveSpec ==
    /\ LiveInit
    /\ [][LiveNext]_vars
    /\ WF_vars(LivePoll)

\* C23: after a successful query the master, polled again and again while
\* the clock advances, returns to IDLE in the end, whatever arrives.
C23_MasterReturnsToIdle ==
    (u8state = COM_WAITING) ~> (u8state = COM_IDLE)

\* ------------------------------------------------------------ C24
\* this step is a poll that gets as far as looking at the bytes waiting in
\* the port: a slave's, or a master's whose watchdog test did not fire
PollObserves ==
    /\ call'.op = "poll"
    /\ rx # <<>>
    /\ u8id = 0 => ~timedOut(Self, now)

\* C24: in both roles a poll drains the port only when the available-byte
\* count equals the count the previous poll recorded and at least T35 has
\* passed since that count was first observed; a poll that finds another
\* count drains nothing, transmits nothing, changes no counter, records the
\* count and sets the silence deadline to now + T35.
C24_DrainAfterSilence ==
    [][PollObserves
        => /\ call'.drained # <<>>
              => /\ Len(rx) = u8lastRec
                 /\ ElapsedSince(u32time, T35) >= T35
           /\ Len(rx) # u8lastRec
              => /\ call'.drained = <<>> /\ tx' = <<>>
                 /\ UNCHANGED <<u16InCnt, u16OutCnt, u16errCnt>>
                 /\ u8lastRec' = Len(rx)
                 /\ u32time' = U32(now + T35)]_vars

\* ------------------------------------------------------------ C25
\* this step is a poll in which a waiting master takes the drained frame
\* for the answer: it returns the frame's size or stores values in the
\* caller's array
MasterAccepts ==
    /\ call'.op = "poll" /\ u8id = 0 /\ u8state = COM_WAITING
    /\ call'.drained # <<>>
    /\ ret' >= 7 \/ au16regs' # au16regs

\* C25: the master accepts a frame as the answer only when its address
\* byte is the target of the query it waits on and its function code is that
\* query's function code (the query's header is still in the frame buffer).
C25_AnswerMatchesQuery ==
    [][MasterAccepts
        => /\ call'.drained[1] = au8Buffer[ID]
           /\ call'.drained[2] = au8Buffer[FUNC]]_vars

\* ------------------------------------------------------------ C26
\* the quantity of the query the master waits on (its header is still in
\* the frame buffer)
QueriedCount == word(au8Buffer[NB_HI], au8Buffer[NB_LO])

\* C26: when the master accepts a reply to an FC3 or FC4 query of quantity
\* q, whatever byte count the reply carries, it touches nothing outside the
\* caller's array and the frame buffer, and each of the words 0..q-1 of the
\* caller's array is left as it was or is set to the word of the received
\* frame at its place; no other word is stored.
C26_CopyWithinBounds ==
    [][(/\ MasterAccepts
        /\ au8Buffer[FUNC] \in {MB_FC_READ_REGISTERS, MB_FC_READ_INPUT_REGISTER})
        => /\ ~oob'
           /\ Len(au16regs') = Len(au16regs)
           /\ \A i \in 1 .. Len(au16regs) :
                \/ au16regs'[i] = au16regs[i]
                \/ /\ i <= QueriedCount
                   /\ 2 * i + 3 <= Len(call'.drained)
                   /\ au16regs'[i] = word(call'.drained[2 * i + 2],
                                          call'.drained[2 * i + 3])]_vars

\* ------------------------------------------------------------ C27
\* A master and a slave on one line.  The slave is the object after init
\* and begin() with the Register Store of Init; it has seen the bytes of the
\* request on an earlier poll and polls again after the silence.
SlaveNode(request) ==
    [u8id |-> SlaveId, u8txenpin |-> 0,
     u8state |-> COM_IDLE, u8lastError |-> 0,
     au8Buffer |-> ZeroBuffer, u8BufferSize |-> 0,
     u8lastRec |-> U8(Len(request)), au16regs |-> <<>>,
     u16InCnt |-> 0, u16OutCnt |-> 0, u16errCnt |-> 0,
     u16timeOut |-> DefaultTimeOut,
     r_regArea |-> RRegsInit, rw_regArea |-> RwRegsInit,
     r_bitArea |-> RBitsInit, rw_bitArea |-> RwBitsInit,
     u32time |-> 0, u32timeOut |-> 0,
     rx |-> request, tx |-> <<>>, rxed |-> <<>>, oob |-> FALSE, r |-> 0,
     txen |-> "LOW", txc |-> FALSE, line |-> <<>>]

\* the frames the slave's poll transmits for the request
slaveReply(request, millis) == pollSlave(SlaveNode(request), millis, 0).tx

\* descriptors of the eight function codes, start and quantity in range
BusTelegrams ==
    {Telegram(SlaveId, 1, 0, 8, <<0>>), Telegram(SlaveId, 1, 3, 5, <<0>>),
     Telegram(SlaveId, 1, 0, 9, <<0>>), Telegram(SlaveId, 1, 0, 16, <<0>>),
     Telegram(SlaveId, 2, 0, 1, <<0>>), Telegram(SlaveId, 2, 6, 10, <<0>>),
     Telegram(SlaveId, 3, 0, 1, <<0>>), Telegram(SlaveId, 3, 14, 2, <<0, 0>>),
     Telegram(SlaveId, 4, 0, 1, <<0>>), Telegram(SlaveId, 4, 2, 2, <<0, 0>>),
     Telegram(SlaveId, 5, 3, 1, <<1>>), Telegram(SlaveId, 5, 15, 1, <<0>>),
     Telegram(SlaveId, 6, 5, 1, <<255>>), Telegram(SlaveId, 6, 15, 1, <<4660>>),
     Telegram(SlaveId, 15, 2, 10, <<933>>),
     Telegram(SlaveId, 16, 0, 2, <<4660, 22136>>)}

BusInit == Init /\ u8id = 0

\* query(telegram) on the master
BusQuery ==
    /\ \E telegram \in BusTelegrams :
         \E o \in {query(Self, telegram, now, 0)} :
             /\ o.u16OutCnt <= MaxCnt
             /\ Commit(o)
             /\ call' = Called("query", telegram, <<>>)
    /\ UNCHANGED now

\* the slave answers the frame the master has just transmitted; its reply
\* arrives intact in the master's port
BusDeliver ==
    /\ call.op = "query" /\ Len(tx) = 1 /\ rx = <<>>
    /\ \E reply \in {slaveReply(tx[1], U32(now + T35))} :
         /\ Len(reply) = 1
         /\ rx' = reply[1]
    /\ call' = Called("receive", NoTelegram, <<>>)
    /\ tx' = <<>> /\ ret' = 0 /\ oob' = FALSE /\ line' = <<>>
    /\ UNCHANGED <<members, now, txen, txc>>

BusNext == BusQuery \/ BusDeliver \/ Tick \/ PollMaster

BusSpec == BusInit /\ [][BusNext]_vars

\* this step is the poll in which the waiting master drains a normal reply
\* of the slave before the watchdog deadline
DrainsReply ==
    /\ call'.op = "poll" /\ u8id = 0 /\ u8state = COM_WAITING
    /\ call'.drained # <<>> /\ call'.drained = rx
    /\ Len(rx) >= 2 /\ rx[2] < 128

\* C27: every normal reply of the slave to a request of the master, delivered
\* intact, passes the master's minimum-size test: the poll that drains it
\* returns its size, counts no error and leaves the master idle.
C27_ReplySizesAgree ==
    [][DrainsReply => /\ ret' = Len(rx)
                      /\ u16errCnt' = u16errCnt
                      /\ u8state' = COM_IDLE]_vars

\* ------------------------------------------------------------ C28
\* bit k of a bit space
BitOf(area, k) == bitRead(area[k \div 16], k % 16)

\* the elements a request of the drained frame addresses: one for the single
\* writes, the frame's quantity for the multiple writes
AddressedBy(d, k) ==
    /\ k >= StartIn(d)
    /\ k < StartIn(d) + (IF d[2] \in {MB_FC_WRITE_COIL, MB_FC_WRITE_REGISTER}
                         THEN 1 ELSE CountIn(d))

\* C28: a poll of a slave never changes the read-only register space or the
\* read-only bit space; it changes words of the read-write register space
\* only when it serves an FC6 or FC16 request and only inside the addressed
\* range, and bits of the read-write bit space only when it serves an FC5 or
\* FC15 request and only inside the addressed range.
C28_OnlyWritesChangeStore ==
    [][(call'.op = "poll" /\ u8id # 0)
        => /\ r_regArea' = r_regArea
           /\ r_bitArea' = r_bitArea
           /\ rw_regArea' # rw_regArea
                => /\ \E fct \in {MB_FC_WRITE_REGISTER,
                                  MB_FC_WRITE_MULTIPLE_REGISTERS} : SlaveServes(fct)
                   /\ \A i \in 0 .. SIZE_RW_REGS - 1 :
                        rw_regArea'[i] # rw_regArea[i]
                            => AddressedBy(call'.drained, i)
           /\ rw_bitArea' # rw_bitArea
                => /\ \E fct \in {MB_FC_WRITE_COIL,
                                  MB_FC_WRITE_MULTIPLE_COILS} : SlaveServes(fct)
                   /\ \A k \in 0 .. 16 * BitWords - 1 :
                        BitOf(rw_bitArea', k) # BitOf(rw_bitArea, k)
                            => AddressedBy(call'.drained, k)]_vars

\* ------------------------------------------------------------ C29
\* C29: for every descriptor, query stores no byte at a frame-buffer index
\* of 64 or more and the frame it transmits (the length counter at the
\* write) is no longer than the frame buffer; given a caller's array that
\* holds the values the descriptor counts, the call touches nothing outside
\* an array.
C29_QueryWithinBuffer ==
    [][(call'.op = "query" /\ u8id = 0 /\ u8state = COM_IDLE)
        => /\ \A k \in 1 .. Len(tx') : Len(tx'[k]) <= MAX_BUFFER
           /\ u8BufferSize' <= MAX_BUFFER
           /\ Len(call'.telegram.au16reg) >= call'.telegram.u16CoilsNo
                => ~oob']_vars

====
